---- MODULE Spec2Model ----
(***************************************************************************)
(* Model of ThemeService (src/tsconfig.json, lines 43-225): the UI theme   *)
(* manager that resolves a dark/light setting from local storage or from   *)
(* the operating system's colour-scheme preference, toggles one CSS class  *)
(* on the document body and listens to the media query's "change" event.   *)
(*                                                                         *)
(* JavaScript values are encoded uniformly:                                *)
(*   - a boolean-or-undefined is one of the strings "true", "false",       *)
(*     "undefined";                                                        *)
(*   - the settings field is a record [kind, darkMode] with kind one of    *)
(*     "undefined", "null", "object" ("SyntaxError" for a failed parse);   *)
(*   - a serialized value in local storage is a sequence of JSON tokens,   *)
(*     the empty sequence standing for getItem's null (key not present).   *)
(***************************************************************************)
EXTENDS Integers, Sequences, FiniteSets, TLC

VARIABLES
  store,       \* local storage entry under SETTINGS_KEY (token sequence)
  loadVal,     \* value the constructor's getItem(SETTINGS_KEY) read
  pc,          \* "loading": the getItem observable has not emitted yet; "ready": it has
  settings,    \* ThemeService.settings
  lightClass,  \* TRUE iff document.body carries LIGHT_MODE_CSS_CLASS_NAME
  subs,        \* number of live fromEvent(matchMedia, "change") subscriptions
  osAvail,     \* TRUE iff document.defaultView exists
  osDark,      \* matchMedia(SYSTEM_DARK_MODE_MEDIA_QUERY).matches
  destroyed,   \* TRUE once _destroy$ has emitted
  threw,       \* TRUE iff the constructor's subscription ended with an unhandled error
  calls,       \* renderer calls made by the most recent handler, in order
  op,          \* the most recent handler and its argument
  lastChoice   \* the user's most recent theme choice: "none", "user" or "system"

vars == <<store, loadVal, pc, settings, lightClass, subs, osAvail, osDark,
          destroyed, threw, calls, op, lastChoice>>

\* Largest number of simultaneously live change subscriptions explored.
MaxSubs == 3

Bool == {"true", "false"}

\* ---------------------------------------------------------------- values

Undefined == [kind |-> "undefined", darkMode |-> "undefined"]

Null == [kind |-> "null", darkMode |-> "undefined"]

SyntaxError == [kind |-> "SyntaxError", darkMode |-> "undefined"]

\* An object value with the given darkMode field ("undefined": field missing).
Obj(d) == [kind |-> "object", darkMode |-> d]

\* JavaScript truthiness of a settings value / of a boolean-or-undefined.
Truthy(v) == v.kind = "object"

ToBoolean(d) == d = "true"

\* ---------------------------------------------------------------- storage

\* getItem's result for a key that is not present.
Absent == <<>>

\* JSON text of a settings object, token by token.
JSONstringify(v) ==
  IF v.kind = "object"
    THEN IF v.darkMode = "undefined"
           THEN <<"{", "}">>
           ELSE <<"{", "darkMode", ":", v.darkMode, "}">>
    ELSE <<"null">>

\* JSON.parse on a token sequence: an object with at most the darkMode
\* member, the literal null, or a SyntaxError for anything else.
JSONparse(s) ==
  IF s = <<"null">> THEN Null
  ELSE IF s = <<"{", "}">> THEN Obj("undefined")
  ELSE IF /\ Len(s) = 5
          /\ s[1] = "{" /\ s[2] = "darkMode" /\ s[3] = ":"
          /\ s[4] \in Bool /\ s[5] = "}"
         THEN Obj(s[4])
  ELSE SyntaxError

\* A truncated JSON text: not deserializable.
Malformed == <<"{", "darkMode">>

\* Contents local storage may hold under the key when the page is opened.
InitialStores ==
  {Absent, JSONstringify(Obj("true")), JSONstringify(Obj("false")),
   <<"null">>, <<"{", "}">>, Malformed}

\* LocalStorage.getItem / setItem / removeItem on the single key.
getItem(st) == st

setItem(v) == JSONstringify(v)

removeItem == Absent

\* ---------------------------------------------------------------- service

\* Variant: the media query's result negated.
isSystemDarkInverted ==
  IF osAvail THEN (IF osDark = "true" THEN "false" ELSE "true") ELSE "undefined"

\* isSystemDark(): optional chaining yields undefined without a window.
isSystemDark == IF osAvail THEN osDark ELSE "undefined"

\* setMode(darkMode): the renderer call it makes ...
setModeCall(darkMode) == IF ToBoolean(darkMode) THEN "removeClass" ELSE "addClass"

\* Variant: the dark branch removes nothing, the class stays as it is.
setModeAddOnly(darkMode) == IF ToBoolean(darkMode) THEN lightClass ELSE TRUE

\* Variant: the light branch toggles the class instead of adding it.
setModeToggle(darkMode) == IF ToBoolean(darkMode) THEN FALSE ELSE ~lightClass

\* ... and the resulting presence of the light-mode class on the body.
setMode(darkMode) == IF ToBoolean(darkMode) THEN FALSE ELSE TRUE

\* startSystemModeSynchronization(): one more live subscription when a
\* window exists, none otherwise.
startSystemModeSynchronization(n) == IF osAvail THEN n + 1 ELSE n

\* Guard keeping the subscription counter within MaxSubs.
CanStart == osAvail => subs < MaxSubs

\* Variant: the pipe without takeUntil, nothing ends at teardown.
takeUntilDestroyLeak(n) == n

\* takeUntil(this._destroy$): every piped subscription ends when the
\* notifier emits.
takeUntilDestroy(n) == 0

\* Variant: the handler re-applies the preference read before the event.
changeHandlerStale(m, n, cls) == IF n > 0 THEN setMode(osDark) ELSE cls

\* The change handler inside map(): e.matches is applied by every live
\* subscription in turn; the last call decides the class.
changeHandler(m, n, cls) == IF n > 0 THEN setMode(m) ELSE cls

changeHandlerCalls(m, n) == [i \in 1..n |-> setModeCall(m)]

Label(name, arg) == [name |-> name, arg |-> arg]

Init ==
  /\ store \in InitialStores
  /\ loadVal = getItem(store)
  /\ pc = "loading"
  /\ settings = Undefined
  /\ lightClass = FALSE
  /\ subs = 0
  /\ osAvail \in BOOLEAN
  /\ osDark \in Bool
  /\ destroyed = FALSE
  /\ threw = FALSE
  /\ calls = <<>>
  /\ op = Label("constructor", "none")
  /\ lastChoice = "none"

\* The page is opened again: a fresh document and a fresh ThemeService
\* constructed against the same local storage.
Constructor ==
  /\ loadVal' = getItem(store)
  /\ pc' = "loading"
  /\ settings' = Undefined
  /\ lightClass' = FALSE
  /\ subs' = 0
  /\ destroyed' = FALSE
  /\ threw' = FALSE
  /\ calls' = <<>>
  /\ op' = Label("constructor", "none")
  /\ UNCHANGED <<store, osAvail, osDark, lastChoice>>

\* Variant: the stored value is never deserialized.
firstTapIgnoreStored(serializedValue) == Undefined

\* Variant: a failed JSON.parse is caught and treated as no record.
firstTapSwallow(serializedValue) ==
  IF serializedValue # Absent /\ JSONparse(serializedValue).kind # "SyntaxError"
    THEN JSONparse(serializedValue)
    ELSE Undefined

\* First tap of _getDefaultSettings: the value assigned to this.settings,
\* or SyntaxError when JSON.parse throws (nothing is assigned then).
firstTap(serializedValue) ==
  IF serializedValue # Absent THEN JSONparse(serializedValue) ELSE Undefined

\* The getItem observable emits: both taps of _getDefaultSettings run.
GetDefaultSettings ==
  /\ pc = "loading"
  /\ ~destroyed
  /\ pc' = "ready"
  /\ LET parsed == firstTap(loadVal) IN
       IF parsed.kind = "SyntaxError"
         THEN /\ threw' = TRUE
              /\ UNCHANGED <<settings, subs>>
         ELSE IF ~Truthy(parsed)
           THEN /\ CanStart
                /\ settings' = Obj(isSystemDark)
                /\ subs' = startSystemModeSynchronization(subs)
                /\ threw' = FALSE
           ELSE /\ settings' = parsed
                /\ threw' = FALSE
                /\ UNCHANGED subs
  /\ calls' = <<>>
  /\ op' = Label("getDefaultSettings", "none")
  /\ UNCHANGED <<store, loadVal, lightClass, osAvail, osDark, destroyed, lastChoice>>

\* apply()
Apply ==
  /\ ~destroyed
  /\ LET d == IF Truthy(settings) THEN settings.darkMode ELSE "undefined" IN
       /\ lightClass' = setMode(d)
       /\ calls' = <<setModeCall(d)>>
  /\ op' = Label("apply", "none")
  /\ UNCHANGED <<store, loadVal, pc, settings, subs, osAvail, osDark, destroyed, threw, lastChoice>>

\* Variant: the persisted record is left in place.
setSystemModeKeep ==
  /\ lightClass' = setMode(isSystemDark)
  /\ calls' = <<setModeCall(isSystemDark)>>
  /\ subs' = startSystemModeSynchronization(subs)
  /\ UNCHANGED <<store, loadVal, pc, settings, osAvail, osDark, destroyed, threw>>

\* setSystemMode(), without the trace labels
setSystemMode ==
  /\ lightClass' = setMode(isSystemDark)
  /\ calls' = <<setModeCall(isSystemDark)>>
  /\ subs' = startSystemModeSynchronization(subs)
  /\ store' = removeItem
  /\ UNCHANGED <<loadVal, pc, settings, osAvail, osDark, destroyed, threw>>

SetSystemMode ==
  /\ ~destroyed
  /\ CanStart
  /\ setSystemMode
  /\ op' = Label("setSystemMode", "none")
  /\ lastChoice' = "system"

\* Variant: the mode is applied and persisted, this.settings is not assigned.
setUserDefinedModeNoAssign(darkMode) ==
  /\ lightClass' = setMode(darkMode)
  /\ calls' = <<setModeCall(darkMode)>>
  /\ store' = setItem(Obj(darkMode))
  /\ UNCHANGED <<loadVal, pc, settings, subs, osAvail, osDark, destroyed, threw>>

\* Variant: the settings are persisted before they are replaced.
setUserDefinedModeStale(darkMode) ==
  /\ lightClass' = setMode(darkMode)
  /\ calls' = <<setModeCall(darkMode)>>
  /\ settings' = Obj(darkMode)
  /\ store' = setItem(settings)
  /\ UNCHANGED <<loadVal, pc, subs, osAvail, osDark, destroyed, threw>>

\* setUserDefinedMode(darkMode), without the trace labels
setUserDefinedMode(darkMode) ==
  /\ lightClass' = setMode(darkMode)
  /\ calls' = <<setModeCall(darkMode)>>
  /\ settings' = Obj(darkMode)
  /\ store' = setItem(Obj(darkMode))
  /\ UNCHANGED <<loadVal, pc, subs, osAvail, osDark, destroyed, threw>>

SetUserDefinedMode ==
  /\ ~destroyed
  /\ \E darkMode \in Bool :
       /\ setUserDefinedMode(darkMode)
       /\ op' = Label("setUserDefinedMode", darkMode)
  /\ lastChoice' = "user"

\* Variant: setLightMode() delegating with the wrong argument.
SetLightModeSwapped ==
  /\ ~destroyed
  /\ setUserDefinedMode("true")
  /\ op' = Label("setLightMode", "none")
  /\ lastChoice' = "user"

\* setLightMode()
SetLightMode ==
  /\ ~destroyed
  /\ setUserDefinedMode("false")
  /\ op' = Label("setLightMode", "none")
  /\ lastChoice' = "user"

\* setDarkMode()
SetDarkMode ==
  /\ ~destroyed
  /\ setUserDefinedMode("true")
  /\ op' = Label("setDarkMode", "none")
  /\ lastChoice' = "user"

\* Variant: the change handler also records the new mode in this.settings.
OSChangeStoring ==
  /\ osAvail
  /\ \E m \in Bool :
       /\ m # osDark
       /\ osDark' = m
       /\ lightClass' = changeHandler(m, subs, lightClass)
       /\ calls' = changeHandlerCalls(m, subs)
       /\ settings' = (IF subs > 0 THEN Obj(m) ELSE settings)
       /\ op' = Label("osChange", m)
  /\ UNCHANGED <<store, loadVal, pc, subs, osAvail, destroyed, threw, lastChoice>>

\* The operating system's preference flips: the media query list fires
\* "change" with e.matches = m and every live subscription handles it.
OSChange ==
  /\ osAvail
  /\ \E m \in Bool :
       /\ m # osDark
       /\ osDark' = m
       /\ lightClass' = changeHandler(m, subs, lightClass)
       /\ calls' = changeHandlerCalls(m, subs)
       /\ op' = Label("osChange", m)
  /\ UNCHANGED <<store, loadVal, pc, settings, subs, osAvail, destroyed, threw, lastChoice>>

\* The owning scope ends: _destroy$ emits, once.  The instance belongs to
\* that scope, so its methods and its pending load are guarded by ~destroyed;
\* the media query keeps firing (OSChange) and the page can be opened again
\* (Constructor).
Destroy ==
  /\ ~destroyed
  /\ destroyed' = TRUE
  /\ subs' = takeUntilDestroy(subs)
  /\ calls' = <<>>
  /\ op' = Label("destroy", "none")
  /\ UNCHANGED <<store, loadVal, pc, settings, lightClass, osAvail, osDark, threw, lastChoice>>

Next ==
  \/ Constructor
  \/ GetDefaultSettings
  \/ Apply
  \/ SetSystemMode
  \/ SetUserDefinedMode
  \/ SetLightMode
  \/ SetDarkMode
  \/ OSChange
  \/ Destroy

Spec == Init /\ [][Next]_vars

\* ================================================================ claims

\* The getItem observable emits for a key with no record while a window
\* reports an OS preference.
LoadsNoRecord == op'.name = "getDefaultSettings" /\ loadVal = Absent /\ osAvail

\* C1 (as stated): constructing the service with no persisted record and OS
\* preference p leaves the render flag showing p and a change subscription
\* live.
C1_Original ==
  [][LoadsNoRecord => /\ lightClass' = (osDark = "false")
                      /\ subs' >= 1]_vars

\* C1 (amended): constructing the service with no persisted record and OS
\* preference p sets the in-memory settings to {darkMode: p} and starts one
\* change subscription, without any renderer call; an apply() that follows
\* directly puts p on the render flag.
C1_Amended ==
  [][/\ LoadsNoRecord => /\ settings' = Obj(osDark)
                         /\ subs' = subs + 1
                         /\ lightClass' = lightClass
                         /\ calls' = <<>>
     /\ (/\ op.name = "getDefaultSettings" /\ loadVal = Absent /\ osAvail
         /\ op'.name = "apply")
          => lightClass' = (settings.darkMode = "false")]_vars

C1_Witness ==
  /\ op.name = "getDefaultSettings" /\ loadVal = Absent /\ osAvail
  /\ osDark = "false" /\ settings = Obj("false") /\ subs = 1 /\ ~lightClass

\* The getItem observable emits a well-formed record {darkMode: d}.
LoadsRecord(d) ==
  op'.name = "getDefaultSettings" /\ loadVal = <<"{", "darkMode", ":", d, "}">>

\* C2 (as stated): constructing the service with a persisted {darkMode: d}
\* leaves the render flag showing d and starts no change subscription.
C2_Original ==
  [][\A d \in Bool : LoadsRecord(d) => /\ lightClass' = (d = "false")
                                       /\ subs' = subs]_vars

\* C2 (amended): constructing the service with a persisted {darkMode: d} sets
\* the in-memory settings to {darkMode: d} and starts no change subscription,
\* without any renderer call; an apply() that follows directly puts d on the
\* render flag.
C2_Amended ==
  [][\A d \in Bool :
       /\ LoadsRecord(d) => /\ settings' = Obj(d)
                            /\ subs' = subs
                            /\ lightClass' = lightClass
                            /\ calls' = <<>>
       /\ (/\ op.name = "getDefaultSettings"
           /\ loadVal = <<"{", "darkMode", ":", d, "}">>
           /\ op'.name = "apply")
            => lightClass' = (d = "false")]_vars

C2_Witness ==
  /\ op.name = "getDefaultSettings"
  /\ loadVal = <<"{", "darkMode", ":", "false", "}">>
  /\ settings = Obj("false") /\ subs = 0 /\ ~lightClass /\ osAvail

\* C3: once the user's latest choice is setUserDefinedMode(d), an OS
\* preference-change event leaves the render flag as it was.
C3_OverrideSticks ==
  [][(lastChoice = "user" /\ op'.name = "osChange")
       => lightClass' = lightClass]_vars

\* C4: teardown ends every change subscription started before it, and no OS
\* preference-change event after teardown makes a renderer call.
C4_NoCallsAfterTeardown ==
  [][/\ op'.name = "destroy" => subs' = 0
     /\ (destroyed /\ op'.name = "osChange")
          => (calls' = <<>> /\ lightClass' = lightClass)]_vars

C4_Witness ==
  /\ destroyed /\ op.name = "osChange" /\ lastChoice = "system"
  /\ pc = "ready" /\ loadVal = Absent /\ calls = <<>>

\* C5: setSystemMode() removes the persisted record, the next construction
\* reads no record, and its load takes the no-record path: settings from the
\* current OS preference and a change subscription started.
C5_SystemModeThenInit ==
  [][/\ op'.name = "setSystemMode" => store' = Absent
     /\ lastChoice = "system" => store = Absent
     /\ (lastChoice = "system" /\ op'.name = "constructor") => loadVal' = Absent
     /\ (lastChoice = "system" /\ loadVal = Absent
         /\ op'.name = "getDefaultSettings")
          => /\ settings' = Obj(IF osAvail THEN osDark ELSE "undefined")
             /\ subs' = (IF osAvail THEN subs + 1 ELSE subs)
             /\ ~threw']_vars

C5_Witness ==
  /\ lastChoice = "system" /\ op.name = "getDefaultSettings" /\ loadVal = Absent
  /\ subs = 1 /\ settings = Obj(osDark) /\ store = Absent

\* C6: setUserDefinedMode(d) puts d on the render flag, makes the in-memory
\* settings {darkMode: d} and leaves the store holding the JSON text of
\* {darkMode: d}, which deserializes back to {darkMode: d}.
C6_RoundTrip ==
  [][op'.name = "setUserDefinedMode" =>
       LET d == op'.arg IN
         /\ lightClass' = (d = "false")
         /\ settings' = Obj(d)
         /\ store' = <<"{", "darkMode", ":", d, "}">>
         /\ JSONparse(getItem(store')) = Obj(d)]_vars

C6_Witness ==
  /\ op = Label("setUserDefinedMode", "true")
  /\ store = <<"{", "darkMode", ":", "true", "}">>
  /\ settings = Obj("true") /\ ~lightClass /\ loadVal = Malformed

\* C7: with a live change subscription before teardown, an OS
\* preference-change event reporting m leaves the render flag showing m.
C7_EventApplied ==
  [][(op'.name = "osChange" /\ subs > 0 /\ ~destroyed)
       => /\ lightClass' = (op'.arg = "false")
          /\ Len(calls') = subs
          /\ \A i \in 1..Len(calls') :
               calls'[i] = (IF op'.arg = "true" THEN "removeClass" ELSE "addClass")]_vars

C7_Witness ==
  /\ op = Label("osChange", "false") /\ subs = 1 /\ ~destroyed
  /\ lightClass /\ calls = <<"addClass">> /\ lastChoice = "none"

\* C8: a stored value that cannot be deserialized makes the load fail with an
\* unhandled error; the settings stay as they were (unresolved), nothing is
\* derived from the OS preference and no change subscription is started.
C8_MalformedFails ==
  [][(op'.name = "getDefaultSettings" /\ loadVal = Malformed)
       => /\ threw'
          /\ settings' = settings
          /\ (op.name = "constructor" => settings' = Undefined)
          /\ subs' = subs
          /\ lightClass' = lightClass]_vars

C8_Witness ==
  /\ op.name = "getDefaultSettings" /\ loadVal = Malformed
  /\ threw /\ settings = Undefined /\ subs = 0 /\ osAvail

\* C9: a setLightMode() step is a setUserDefinedMode(false) step and a
\* setDarkMode() step is a setUserDefinedMode(true) step: same render flag,
\* settings, stored record and subscriptions.
C9_Convenience ==
  [][/\ op'.name = "setLightMode" => setUserDefinedMode("false")
     /\ op'.name = "setDarkMode" => setUserDefinedMode("true")]_vars

C9_Witness ==
  /\ op.name = "setLightMode" /\ lightClass /\ settings = Obj("false")
  /\ store = <<"{", "darkMode", ":", "false", "}">> /\ subs = 1

\* C10: at most one OS preference-change subscription is live at any time.
C10_AtMostOneSubscription == subs <= 1

\* C11: while following the system (initialization completed, no persisted
\* record, a window present), apply() leaves the render flag showing the
\* current OS preference.
C11_ApplyFollowsSystem ==
  [][(/\ op'.name = "apply"
      /\ pc = "ready" /\ ~threw /\ store = Absent /\ osAvail)
       => lightClass' = (osDark = "false")]_vars

\* C12: once resolved, the in-memory settings' darkMode is true or false.
C12_DefiniteBoolean == Truthy(settings) => settings.darkMode \in Bool

\* C13: without a window isSystemDark() is false, setSystemMode() and an
\* apply() after a no-record initialization set the light-mode class, and no
\* change subscription is started.
C13_UnavailableIsLight ==
  [][~osAvail =>
       /\ isSystemDark = "false"
       /\ op'.name = "setSystemMode" => (lightClass' /\ subs' = subs)
       /\ (op'.name = "getDefaultSettings" /\ loadVal = Absent) => subs' = subs
       /\ (op'.name = "apply" /\ op.name = "getDefaultSettings" /\ loadVal = Absent)
            => lightClass']_vars

\* A stored text that deserializes to a settings object.
HasRecord(st) == st # Absent /\ JSONparse(st).kind = "object"

\* The stored record, when there is one, carries the in-memory darkMode.
RecordMatchesSettings == HasRecord(store) => JSONparse(store) = settings

\* A record exists exactly when the latest choice is an explicit one: a
\* setUserDefinedMode call, or no call at all since a record was loaded.
RecordIffExplicit ==
  HasRecord(store) <=>
    \/ lastChoice = "user"
    \/ lastChoice = "none" /\ HasRecord(loadVal)

\* C14: a persisted record exists iff the user's latest choice is explicit;
\* an initialization that completes before any choice leaves the record equal
\* to the in-memory settings, and every later setUserDefinedMode,
\* setSystemMode, apply, OS change and teardown keeps it so.
C14_RecordInvariant ==
  [][/\ RecordIffExplicit /\ RecordIffExplicit'
     /\ (op'.name = "getDefaultSettings" /\ store = loadVal /\ ~threw')
          => RecordMatchesSettings'
     /\ (pc = "ready" /\ ~threw /\ RecordMatchesSettings /\ op'.name # "constructor")
          => RecordMatchesSettings']_vars

C14_Witness ==
  /\ pc = "ready" /\ ~threw /\ lastChoice = "user" /\ op.name = "osChange"
  /\ store = <<"{", "darkMode", ":", "true", "}">> /\ settings = Obj("true")
  /\ loadVal = <<"{", "darkMode", ":", "false", "}">>

C16_LastApplyWins ==
  [][/\ calls' # <<>> => (lightClass' <=> calls'[Len(calls')] = "addClass")
     /\ (calls' = <<>> /\ op'.name # "constructor") => lightClass' = lightClass]_vars

C16_Witness ==
  /\ op = Label("osChange", "true") /\ subs = 2 /\ lastChoice = "system"
  /\ calls = <<"removeClass", "removeClass">> /\ ~lightClass
  /\ settings = Obj("false")

\* C17: an OS preference-change event leaves the store and the in-memory
\* settings unchanged, setSystemMode() leaves the in-memory settings
\* unchanged, and setUserDefinedMode() leaves the subscriptions unchanged.
C17_Frame ==
  [][/\ op'.name = "osChange" =>
          (store' = store /\ settings' = settings /\ subs' = subs)
     /\ op'.name = "setSystemMode" => settings' = settings
     /\ op'.name \in {"setUserDefinedMode", "setLightMode", "setDarkMode"} =>
          subs' = subs]_vars

C17_Witness ==
  /\ op = Label("osChange", "false") /\ subs = 1 /\ store = Absent
  /\ settings = Obj("true") /\ lightClass /\ pc = "ready"

\* The mode a handler applied, read from its last renderer call.
Applied(cs) == IF cs[Len(cs)] = "addClass" THEN "false" ELSE "true"

\* C18: a handler that applies the mode the previous handler applied leaves
\* the render flag as it is: absent for dark, present for light.
C18_ApplyIdempotent ==
  [][(calls # <<>> /\ calls' # <<>> /\ Applied(calls) = Applied(calls'))
       => /\ lightClass' = lightClass
          /\ lightClass' = (Applied(calls') = "false")]_vars

C18_Witness ==
  /\ op.name = "apply" /\ calls = <<"addClass">> /\ lightClass
  /\ settings = Obj("false") /\ lastChoice = "user"
====
